---- MODULE Spec2Model ----
(***************************************************************************)
(* Model of rust-rsi: the CCA attestation token claim model                *)
(* (src/token/mod.rs), its typed views (src/token/parser.rs) and the       *)
(* /dev/rsi ioctl wrappers (src/ioctl/mod.rs).                             *)
(***************************************************************************)
EXTENDS Integers, Sequences, FiniteSets, TLC

VARIABLES
    tok,        \* which token object the program has constructed so far
    realm,      \* RealmToken    {token_claims, measurement_claims}
    platform,   \* PlatformToken {token_claims, sw_component_claims}
    asserts,    \* outcome of the assert!s executed by the constructors
    result,     \* outcome of the last typed-view call
    gc,         \* the ClaimsMap handed to a direct get_claim call
    pc,         \* position of the current ioctl wrapper call
    op,         \* the ioctl wrapper being executed
    fds,        \* number of descriptors of /dev/rsi currently open
    opens,      \* number of open() calls made by the current wrapper call
    token,      \* length of the Vec<u8> `token` held by attestation_token
    attest,     \* attest[0].token_len
    ioctls,     \* the ioctls issued by the current wrapper call, in order
    ret         \* what the last wrapper call returned

vars == <<tok, realm, platform, asserts, result, gc,
          pc, op, fds, opens, token, attest, ioctls, ret>>

tokenVars == <<tok, realm, platform, asserts, result, gc>>
ioctlVars == <<pc, op, fds, opens, token, attest, ioctls, ret>>

----------------------------------------------------------------------------
(* Bounds of the exploration.                                              *)

\* at most this many present claims of one map carry a variant other than
\* the one the constructor declared
MaxMismatch == 1
\* the kernel reports token lengths up to INITIAL_TOKEN_SIZE + MaxExtra
MaxExtra == 2
\* number of distinct labels of the maps handed to get_claim directly
MaxGcLabels == 2

----------------------------------------------------------------------------
(* src/token/mod.rs: labels and counts.                                    *)

CCA_PLAT_CHALLENGE == 10
CCA_PLAT_INSTANCE_ID == 256
CCA_PLAT_PROFILE == 265
CCA_PLAT_SECURITY_LIFECYCLE == 2395
CCA_PLAT_IMPLEMENTATION_ID == 2396
CCA_PLAT_SW_COMPONENTS == 2399
CCA_PLAT_VERIFICATION_SERVICE == 2400
CCA_PLAT_CONFIGURATION == 2401
CCA_PLAT_HASH_ALGO_ID == 2402

CCA_REALM_CHALLENGE == 10
CCA_REALM_PROFILE == 265
CCA_REALM_PERSONALIZATION_VALUE == 44235
CCA_REALM_HASH_ALGO_ID == 44236
CCA_REALM_PUB_KEY == 44237
CCA_REALM_INITIAL_MEASUREMENT == 44238
CCA_REALM_EXTENSIBLE_MEASUREMENTS == 44239
CCA_REALM_PUB_KEY_HASH_ALGO_ID == 44240

CCA_SW_COMP_TITLE == 1
CCA_SW_COMP_MEASUREMENT_VALUE == 2
CCA_SW_COMP_VERSION == 4
CCA_SW_COMP_SIGNER_ID == 5
CCA_SW_COMP_HASH_ALGORITHM == 6

CLAIM_COUNT_REALM_TOKEN == 7
CLAIM_COUNT_PLATFORM_TOKEN == 8
CLAIM_COUNT_REALM_EXTENSIBLE_MEASUREMENTS == 4
CLAIM_COUNT_SW_COMPONENT == 5
MAX_SW_COMPONENT_COUNT == 32

\* The labels the platform token schema names (the CCA_PLAT_* constants).
PlatSchemaLabels ==
    { CCA_PLAT_CHALLENGE, CCA_PLAT_INSTANCE_ID, CCA_PLAT_PROFILE,
      CCA_PLAT_SECURITY_LIFECYCLE, CCA_PLAT_IMPLEMENTATION_ID,
      CCA_PLAT_SW_COMPONENTS, CCA_PLAT_VERIFICATION_SERVICE,
      CCA_PLAT_CONFIGURATION, CCA_PLAT_HASH_ALGO_ID }

\* The labels the realm token schema names (the CCA_REALM_* constants).
RealmSchemaLabels ==
    { CCA_REALM_CHALLENGE, CCA_REALM_PROFILE, CCA_REALM_PERSONALIZATION_VALUE,
      CCA_REALM_HASH_ALGO_ID, CCA_REALM_PUB_KEY, CCA_REALM_INITIAL_MEASUREMENT,
      CCA_REALM_EXTENSIBLE_MEASUREMENTS, CCA_REALM_PUB_KEY_HASH_ALGO_ID }

\* The labels of a software component (the CCA_SW_COMP_* constants).
SwSchemaLabels ==
    { CCA_SW_COMP_TITLE, CCA_SW_COMP_MEASUREMENT_VALUE, CCA_SW_COMP_VERSION,
      CCA_SW_COMP_SIGNER_ID, CCA_SW_COMP_HASH_ALGORITHM }

----------------------------------------------------------------------------
(* src/token/mod.rs: ClaimData, Claim, ClaimsMap.                          *)

\* enum ClaimData { Bool(bool), Int64(i64), Bstr(Vec<u8>), Text(String) }
\* One record shape for the four variants; only the field of the variant
\* named by `tag` is meaningful.
Bool(b)  == [tag |-> "Bool",  b |-> b,     i |-> 0, bstr |-> <<>>, text |-> ""]
Int64(i) == [tag |-> "Int64", b |-> FALSE, i |-> i, bstr |-> <<>>, text |-> ""]
Bstr(d)  == [tag |-> "Bstr",  b |-> FALSE, i |-> 0, bstr |-> d,    text |-> ""]
Text(s)  == [tag |-> "Text",  b |-> FALSE, i |-> 0, bstr |-> <<>>, text |-> s]

Variants == {"Bool", "Int64", "Bstr", "Text"}

new_bool  == Bool(FALSE)
new_int64 == Int64(0)
new_bstr  == Bstr(<<>>)
new_text  == Text("")

\* Claim::new(mandatory, data, title): present starts false.
ClaimNew(mandatory, data, title) ==
    [mandatory |-> mandatory, data |-> data, title |-> title, present |-> FALSE]

\* HashMap::new() and HashMap::insert (an existing key is overwritten).
EmptyMap == [k \in {} |-> ClaimNew(FALSE, new_bool, "")]

Insert(m, k, c) == [x \in (DOMAIN m) \cup {k} |-> IF x = k THEN c ELSE m[x]]

MapLen(m) == Cardinality(DOMAIN m)

\* SwComponent::default()
SwComponentDefault == [present |-> FALSE, claims |-> EmptyMap]

SwSlots == 0 .. (MAX_SW_COMPONENT_COUNT - 1)

\* RealmToken::default() and PlatformToken::default() (cose_sign1 is not
\* read by any operation modelled here).
RealmTokenDefault == [token_claims |-> EmptyMap, measurement_claims |-> EmptyMap]

PlatformTokenDefault ==
    [token_claims |-> EmptyMap,
     sw_component_claims |-> [s \in SwSlots |-> SwComponentDefault]]

----------------------------------------------------------------------------
(* src/token/mod.rs: RealmToken::new and PlatformToken::new.               *)

RealmTokenClaimsNew ==
    LET m0 == EmptyMap
        m1 == Insert(m0, CCA_REALM_CHALLENGE,
                     ClaimNew(TRUE, new_bstr, "Realm challenge"))
        m2 == Insert(m1, CCA_REALM_PROFILE,
                     ClaimNew(FALSE, new_text, "Realm profile"))
        m3 == Insert(m2, CCA_REALM_PERSONALIZATION_VALUE,
                     ClaimNew(TRUE, new_bstr, "Realm personalization value"))
        m4 == Insert(m3, CCA_REALM_HASH_ALGO_ID,
                     ClaimNew(TRUE, new_text, "Realm hash algo id"))
        m5 == Insert(m4, CCA_REALM_PUB_KEY_HASH_ALGO_ID,
                     ClaimNew(TRUE, new_text, "Realm public key hash algo id"))
        m6 == Insert(m5, CCA_REALM_PUB_KEY,
                     ClaimNew(TRUE, new_bstr, "Realm signing public key"))
        m7 == Insert(m6, CCA_REALM_INITIAL_MEASUREMENT,
                     ClaimNew(TRUE, new_bstr, "Realm initial measurement"))
    IN  m7

\* a mutant of MeasurementLoop that tests the count before the increment
RECURSIVE MeasurementLoop_early_break(_, _)
MeasurementLoop_early_break(m, count) ==
    LET m1 == Insert(m, count,
                     ClaimNew(TRUE, new_bstr, "Realm extensible measurement"))
        count1 == count + 1
    IN  IF count1 + 1 = CLAIM_COUNT_REALM_EXTENSIBLE_MEASUREMENTS
        THEN m1
        ELSE MeasurementLoop_early_break(m1, count1)

\* loop { insert(count, ..); count += 1; if count == 4 { break; } }
RECURSIVE MeasurementLoop(_, _)
MeasurementLoop(m, count) ==
    LET m1 == Insert(m, count,
                     ClaimNew(TRUE, new_bstr, "Realm extensible measurement"))
        count1 == count + 1
    IN  IF count1 = CLAIM_COUNT_REALM_EXTENSIBLE_MEASUREMENTS
        THEN m1
        ELSE MeasurementLoop(m1, count1)

PlatformTokenClaimsNew ==
    LET m0 == EmptyMap
        m1 == Insert(m0, CCA_PLAT_CHALLENGE,
                     ClaimNew(TRUE, new_bstr, "Challange"))
        m2 == Insert(m1, CCA_PLAT_VERIFICATION_SERVICE,
                     ClaimNew(FALSE, new_text, "Verification service"))
        m3 == Insert(m2, CCA_PLAT_PROFILE,
                     ClaimNew(TRUE, new_text, "Profile"))
        m4 == Insert(m3, CCA_PLAT_INSTANCE_ID,
                     ClaimNew(TRUE, new_bstr, "Instance ID"))
        m5 == Insert(m4, CCA_PLAT_IMPLEMENTATION_ID,
                     ClaimNew(TRUE, new_bstr, "Implementation ID"))
        m6 == Insert(m5, CCA_PLAT_SECURITY_LIFECYCLE,
                     ClaimNew(TRUE, new_int64, "Lifecycle"))
        m7 == Insert(m6, CCA_PLAT_CONFIGURATION,
                     ClaimNew(TRUE, new_bstr, "Configuration"))
        m8 == Insert(m7, CCA_PLAT_HASH_ALGO_ID,
                     ClaimNew(TRUE, new_text, "Platform hash algo"))
    IN  m8

\* the body of `for component in &mut token.sw_component_claims`
SwComponentNew(component) ==
    LET m0 == component.claims
        m1 == Insert(m0, CCA_SW_COMP_TITLE,
                     ClaimNew(TRUE, new_text, "SW Type"))
        m2 == Insert(m1, CCA_SW_COMP_HASH_ALGORITHM,
                     ClaimNew(FALSE, new_text, "Hash algorithm"))
        m3 == Insert(m2, CCA_SW_COMP_MEASUREMENT_VALUE,
                     ClaimNew(TRUE, new_bstr, "Measurement value"))
        m4 == Insert(m3, CCA_SW_COMP_VERSION,
                     ClaimNew(FALSE, new_text, "Version"))
        m5 == Insert(m4, CCA_SW_COMP_SIGNER_ID,
                     ClaimNew(TRUE, new_bstr, "Signer ID"))
    IN  [present |-> FALSE, claims |-> m5]

\* RealmToken::new(): the constructed token and whether its assert! held.
RealmTokenNew ==
    /\ tok = "none"
    /\ LET t0 == RealmTokenDefault
           tc == RealmTokenClaimsNew
           mc == MeasurementLoop(t0.measurement_claims, 0)
       IN  /\ realm' = [token_claims |-> tc, measurement_claims |-> mc]
           /\ asserts' = [asserts EXCEPT
                            !.realm = (MapLen(tc) = CLAIM_COUNT_REALM_TOKEN)]
    /\ tok' = "realm"
    /\ UNCHANGED <<platform, result, gc>>
    /\ UNCHANGED ioctlVars

\* PlatformToken::new()
PlatformTokenNew ==
    /\ tok = "none"
    /\ LET t0 == PlatformTokenDefault
           tc == PlatformTokenClaimsNew
           sw == [s \in SwSlots |-> SwComponentNew(t0.sw_component_claims[s])]
       IN  /\ platform' = [token_claims |-> tc, sw_component_claims |-> sw]
           /\ asserts' = [asserts EXCEPT
                            !.platform = (MapLen(tc) = CLAIM_COUNT_PLATFORM_TOKEN),
                            !.sw = \A s \in SwSlots :
                                      MapLen(sw[s].claims) = CLAIM_COUNT_SW_COMPONENT]
    /\ tok' = "platform"
    /\ UNCHANGED <<realm, result, gc>>
    /\ UNCHANGED ioctlVars

----------------------------------------------------------------------------
(* src/token/mod.rs: TokenError and the TryFrom<ClaimData> projections.     *)

MissingMandatoryClaim(key) == [kind |-> "MissingMandatoryClaim", label |-> key]
ClaimDataMisMatchType == [kind |-> "ClaimDataMisMatchType", label |-> -1]
NoError == [kind |-> "none", label |-> -1]

Ok(v) == [ok |-> TRUE, val |-> v, err |-> NoError]
Err(e) == [ok |-> FALSE, val |-> 0, err |-> e]

\* impl TryFrom<ClaimData> for String
TryFromString(value) ==
    IF value.tag = "Text" THEN Ok(value.text) ELSE Err(ClaimDataMisMatchType)

\* impl TryFrom<ClaimData> for Vec<u8>
TryFromVec(value) ==
    IF value.tag = "Bstr" THEN Ok(value.bstr) ELSE Err(ClaimDataMisMatchType)

\* impl TryFrom<ClaimData> for i64
TryFromI64(value) ==
    IF value.tag = "Int64" THEN Ok(value.i) ELSE Err(ClaimDataMisMatchType)

\* impl TryFrom<ClaimData> for bool
TryFromBool(value) ==
    IF value.tag = "Bool" THEN Ok(value.b) ELSE Err(ClaimDataMisMatchType)

\* the projection selected by the type parameter T of get_claim
TryInto(T, value) ==
    CASE T = "Text"  -> TryFromString(value)
      [] T = "Bstr"  -> TryFromVec(value)
      [] T = "Int64" -> TryFromI64(value)
      [] T = "Bool"  -> TryFromBool(value)

----------------------------------------------------------------------------
(* src/token/parser.rs                                                     *)

\* a mutant of get_claim that forgets to look at c.present
get_claim_ignores_present(T, key, claims) ==
    IF key \in DOMAIN claims
    THEN LET r == TryInto(T, claims[key].data)
         IN  IF r.ok THEN r ELSE Err(ClaimDataMisMatchType)
    ELSE Err(MissingMandatoryClaim(key))

\* fn get_claim<T: TryFrom<ClaimData>>(key, claims) -> Result<T, TokenError>
get_claim(T, key, claims) ==
    IF key \in DOMAIN claims /\ claims[key].present
    THEN LET r == TryInto(T, claims[key].data)
         IN  IF r.ok THEN r ELSE Err(ClaimDataMisMatchType)
    ELSE Err(MissingMandatoryClaim(key))

\* a mutant of PlatClaims::from_raw_claims that reads the profile before the
\* verification service
PlatClaims_from_raw_claims_reordered(claims) ==
    LET challenge == get_claim("Bstr", CCA_PLAT_CHALLENGE, claims)
        profile == get_claim("Text", CCA_PLAT_PROFILE, claims)
        verification_service ==
            get_claim("Text", CCA_PLAT_VERIFICATION_SERVICE, claims)
        instance_id == get_claim("Bstr", CCA_PLAT_INSTANCE_ID, claims)
        implementation_id == get_claim("Bstr", CCA_PLAT_IMPLEMENTATION_ID, claims)
        lifecycle == get_claim("Int64", CCA_PLAT_SECURITY_LIFECYCLE, claims)
        configuration == get_claim("Bstr", CCA_PLAT_CONFIGURATION, claims)
        hash_algo == get_claim("Text", CCA_PLAT_HASH_ALGO_ID, claims)
    IN  IF ~challenge.ok THEN Err(challenge.err)
        ELSE IF ~profile.ok THEN Err(profile.err)
        ELSE IF ~verification_service.ok THEN Err(verification_service.err)
        ELSE IF ~instance_id.ok THEN Err(instance_id.err)
        ELSE IF ~implementation_id.ok THEN Err(implementation_id.err)
        ELSE IF ~lifecycle.ok THEN Err(lifecycle.err)
        ELSE IF ~configuration.ok THEN Err(configuration.err)
        ELSE IF ~hash_algo.ok THEN Err(hash_algo.err)
        ELSE Ok([challenge |-> challenge.val,
                 verification_service |-> verification_service.val,
                 profile |-> profile.val,
                 instance_id |-> instance_id.val,
                 implementation_id |-> implementation_id.val,
                 lifecycle |-> lifecycle.val,
                 configuration |-> configuration.val,
                 hash_algo |-> hash_algo.val])

\* PlatClaims::from_raw_claims: the fields are evaluated in source order and
\* each `?` returns the first error.
PlatClaims_from_raw_claims(claims) ==
    LET challenge == get_claim("Bstr", CCA_PLAT_CHALLENGE, claims)
        verification_service ==
            get_claim("Text", CCA_PLAT_VERIFICATION_SERVICE, claims)
        profile == get_claim("Text", CCA_PLAT_PROFILE, claims)
        instance_id == get_claim("Bstr", CCA_PLAT_INSTANCE_ID, claims)
        implementation_id == get_claim("Bstr", CCA_PLAT_IMPLEMENTATION_ID, claims)
        lifecycle == get_claim("Int64", CCA_PLAT_SECURITY_LIFECYCLE, claims)
        configuration == get_claim("Bstr", CCA_PLAT_CONFIGURATION, claims)
        hash_algo == get_claim("Text", CCA_PLAT_HASH_ALGO_ID, claims)
    IN  IF ~challenge.ok THEN Err(challenge.err)
        ELSE IF ~verification_service.ok THEN Err(verification_service.err)
        ELSE IF ~profile.ok THEN Err(profile.err)
        ELSE IF ~instance_id.ok THEN Err(instance_id.err)
        ELSE IF ~implementation_id.ok THEN Err(implementation_id.err)
        ELSE IF ~lifecycle.ok THEN Err(lifecycle.err)
        ELSE IF ~configuration.ok THEN Err(configuration.err)
        ELSE IF ~hash_algo.ok THEN Err(hash_algo.err)
        ELSE Ok([challenge |-> challenge.val,
                 verification_service |-> verification_service.val,
                 profile |-> profile.val,
                 instance_id |-> instance_id.val,
                 implementation_id |-> implementation_id.val,
                 lifecycle |-> lifecycle.val,
                 configuration |-> configuration.val,
                 hash_algo |-> hash_algo.val])

\* a mutant of PlatSwComponent::from_raw_claims that always takes the
\* platform hash algorithm
PlatSwComponent_from_raw_claims_platform_algo(claims, plat_hash_algo) ==
    LET ty == get_claim("Text", CCA_SW_COMP_TITLE, claims)
        value == get_claim("Bstr", CCA_SW_COMP_MEASUREMENT_VALUE, claims)
        version == get_claim("Text", CCA_SW_COMP_VERSION, claims)
        signer_id == get_claim("Bstr", CCA_SW_COMP_SIGNER_ID, claims)
    IN  IF ~ty.ok THEN Err(ty.err)
        ELSE IF ~value.ok THEN Err(value.err)
        ELSE IF ~version.ok THEN Err(version.err)
        ELSE IF ~signer_id.ok THEN Err(signer_id.err)
        ELSE Ok([ty |-> ty.val,
                 hash_algo |-> plat_hash_algo,
                 value |-> value.val,
                 version |-> version.val,
                 signer_id |-> signer_id.val])

\* PlatSwComponent::from_raw_claims: hash_algo falls back to plat_hash_algo
\* on any error of its get_claim; the other four fields use `?`.
PlatSwComponent_from_raw_claims(claims, plat_hash_algo) ==
    LET ty == get_claim("Text", CCA_SW_COMP_TITLE, claims)
        own_algo == get_claim("Text", CCA_SW_COMP_HASH_ALGORITHM, claims)
        hash_algo == IF own_algo.ok THEN own_algo.val ELSE plat_hash_algo
        value == get_claim("Bstr", CCA_SW_COMP_MEASUREMENT_VALUE, claims)
        version == get_claim("Text", CCA_SW_COMP_VERSION, claims)
        signer_id == get_claim("Bstr", CCA_SW_COMP_SIGNER_ID, claims)
    IN  IF ~ty.ok THEN Err(ty.err)
        ELSE IF ~value.ok THEN Err(value.err)
        ELSE IF ~version.ok THEN Err(version.err)
        ELSE IF ~signer_id.ok THEN Err(signer_id.err)
        ELSE Ok([ty |-> ty.val,
                 hash_algo |-> hash_algo,
                 value |-> value.val,
                 version |-> version.val,
                 signer_id |-> signer_id.val])

\* Option<String>
None == [some |-> FALSE, val |-> ""]
Some(v) == [some |-> TRUE, val |-> v]

\* Result::ok(): Ok(v) becomes Some(v), any Err becomes None
ResultOk(r) == IF r.ok THEN Some(r.val) ELSE None

\* for i in 0..CLAIM_COUNT_REALM_EXTENSIBLE_MEASUREMENTS {
\*     rems[i] = get_claim(i as u32, measurement_claims)?; }
\* The result is Ok(rems) or the first error.
RECURSIVE RemsLoop(_, _, _)
RemsLoop(rems, i, measurement_claims) ==
    IF i = CLAIM_COUNT_REALM_EXTENSIBLE_MEASUREMENTS
    THEN Ok(rems)
    ELSE LET r == get_claim("Bstr", i, measurement_claims)
         IN  IF ~r.ok THEN Err(r.err)
             ELSE RemsLoop([rems EXCEPT ![i] = r.val], i + 1, measurement_claims)

\* <[Vec<u8>; 4]>::default()
RemsDefault == [i \in 0 .. (CLAIM_COUNT_REALM_EXTENSIBLE_MEASUREMENTS - 1) |-> <<>>]

\* a mutant of RealmClaims::from_raw_claims that uses `?` on the profile
RealmClaims_from_raw_claims_profile_required(claims, measurement_claims) ==
    LET rems == RemsLoop(RemsDefault, 0, measurement_claims)
        challenge == get_claim("Bstr", CCA_REALM_CHALLENGE, claims)
        profile == get_claim("Text", CCA_REALM_PROFILE, claims)
        personalization_value ==
            get_claim("Bstr", CCA_REALM_PERSONALIZATION_VALUE, claims)
        hash_algo == get_claim("Text", CCA_REALM_HASH_ALGO_ID, claims)
        pub_key_hash_algo ==
            get_claim("Text", CCA_REALM_PUB_KEY_HASH_ALGO_ID, claims)
        pub_key == get_claim("Bstr", CCA_REALM_PUB_KEY, claims)
        rim == get_claim("Bstr", CCA_REALM_INITIAL_MEASUREMENT, claims)
    IN  IF ~rems.ok THEN Err(rems.err)
        ELSE IF ~challenge.ok THEN Err(challenge.err)
        ELSE IF ~profile.ok THEN Err(profile.err)
        ELSE IF ~personalization_value.ok THEN Err(personalization_value.err)
        ELSE IF ~hash_algo.ok THEN Err(hash_algo.err)
        ELSE IF ~pub_key_hash_algo.ok THEN Err(pub_key_hash_algo.err)
        ELSE IF ~pub_key.ok THEN Err(pub_key.err)
        ELSE IF ~rim.ok THEN Err(rim.err)
        ELSE Ok([challenge |-> challenge.val,
                 profile |-> Some(profile.val),
                 personalization_value |-> personalization_value.val,
                 hash_algo |-> hash_algo.val,
                 pub_key_hash_algo |-> pub_key_hash_algo.val,
                 pub_key |-> pub_key.val,
                 rim |-> rim.val,
                 rems |-> rems.val])

\* a mutant of RealmClaims::from_raw_claims that reads the measurements
\* after the realm token claims
RealmClaims_from_raw_claims_rems_last(claims, measurement_claims) ==
    LET rems == RemsLoop(RemsDefault, 0, measurement_claims)
        challenge == get_claim("Bstr", CCA_REALM_CHALLENGE, claims)
        profile == ResultOk(get_claim("Text", CCA_REALM_PROFILE, claims))
        personalization_value ==
            get_claim("Bstr", CCA_REALM_PERSONALIZATION_VALUE, claims)
        hash_algo == get_claim("Text", CCA_REALM_HASH_ALGO_ID, claims)
        pub_key_hash_algo ==
            get_claim("Text", CCA_REALM_PUB_KEY_HASH_ALGO_ID, claims)
        pub_key == get_claim("Bstr", CCA_REALM_PUB_KEY, claims)
        rim == get_claim("Bstr", CCA_REALM_INITIAL_MEASUREMENT, claims)
    IN  IF ~challenge.ok THEN Err(challenge.err)
        ELSE IF ~personalization_value.ok THEN Err(personalization_value.err)
        ELSE IF ~hash_algo.ok THEN Err(hash_algo.err)
        ELSE IF ~pub_key_hash_algo.ok THEN Err(pub_key_hash_algo.err)
        ELSE IF ~pub_key.ok THEN Err(pub_key.err)
        ELSE IF ~rim.ok THEN Err(rim.err)
        ELSE IF ~rems.ok THEN Err(rems.err)
        ELSE Ok([challenge |-> challenge.val,
                 profile |-> profile,
                 personalization_value |-> personalization_value.val,
                 hash_algo |-> hash_algo.val,
                 pub_key_hash_algo |-> pub_key_hash_algo.val,
                 pub_key |-> pub_key.val,
                 rim |-> rim.val,
                 rems |-> rems.val])

\* RealmClaims::from_raw_claims: the measurement loop runs first, then the
\* fields in source order; the profile's error is dropped by .ok().
RealmClaims_from_raw_claims(claims, measurement_claims) ==
    LET rems == RemsLoop(RemsDefault, 0, measurement_claims)
        challenge == get_claim("Bstr", CCA_REALM_CHALLENGE, claims)
        profile == ResultOk(get_claim("Text", CCA_REALM_PROFILE, claims))
        personalization_value ==
            get_claim("Bstr", CCA_REALM_PERSONALIZATION_VALUE, claims)
        hash_algo == get_claim("Text", CCA_REALM_HASH_ALGO_ID, claims)
        pub_key_hash_algo ==
            get_claim("Text", CCA_REALM_PUB_KEY_HASH_ALGO_ID, claims)
        pub_key == get_claim("Bstr", CCA_REALM_PUB_KEY, claims)
        rim == get_claim("Bstr", CCA_REALM_INITIAL_MEASUREMENT, claims)
    IN  IF ~rems.ok THEN Err(rems.err)
        ELSE IF ~challenge.ok THEN Err(challenge.err)
        ELSE IF ~personalization_value.ok THEN Err(personalization_value.err)
        ELSE IF ~hash_algo.ok THEN Err(hash_algo.err)
        ELSE IF ~pub_key_hash_algo.ok THEN Err(pub_key_hash_algo.err)
        ELSE IF ~pub_key.ok THEN Err(pub_key.err)
        ELSE IF ~rim.ok THEN Err(rim.err)
        ELSE Ok([challenge |-> challenge.val,
                 profile |-> profile,
                 personalization_value |-> personalization_value.val,
                 hash_algo |-> hash_algo.val,
                 pub_key_hash_algo |-> pub_key_hash_algo.val,
                 pub_key |-> pub_key.val,
                 rim |-> rim.val,
                 rems |-> rems.val])

----------------------------------------------------------------------------
(* Recording claim values.  Claim's fields and the tokens' maps are pub     *)
(* (src/token/mod.rs): whoever holds a token, the claim extractor or a      *)
(* caller, records a value by setting `data` and `present` of an entry.     *)

\* the values a claim is given
WrittenVals == { Int64(1), Bstr(<<1>>), Text("sha-256"), Text("sha-512") }

\* the values recorded for a claim whose constructor declared `declared`:
\* every value of the declared variant, and one value of another variant
OtherVariant(declared) == IF declared.tag = "Bstr" THEN Text("sha-256") ELSE Bstr(<<1>>)

ClaimVals(declared) ==
    { d \in WrittenVals : d.tag = declared.tag } \cup { OtherVariant(declared) }

\* the platform hash algorithm strings passed to PlatSwComponent
PlatHashAlgos == { "sha-256", "sha-512" }

\* the software component slots that get populated: the first and the last
WrittenSlots == { 0, MAX_SW_COMPONENT_COUNT - 1 }

SetClaim(m, k, d) == [m EXCEPT ![k].present = TRUE, ![k].data = d]

\* the schema a constructor gives to the measurement map
MeasurementClaimsNew == MeasurementLoop(EmptyMap, 0)

\* the schema a constructor gives to a software component
SwComponentClaimsNew == SwComponentNew(SwComponentDefault).claims

\* the present claims of m whose variant is not the one `schema` declares
Mismatched(m, schema) ==
    { k \in DOMAIN m : m[k].present /\ m[k].data.tag # schema[k].data.tag }

NoResult == [op |-> "none"]

AnyPresent(m) == \E k \in DOMAIN m : m[k].present

WriteRealmClaim ==
    /\ tok = "realm"
    /\ result = NoResult
    /\ \E k \in DOMAIN realm.token_claims :
       \E d \in ClaimVals(RealmTokenClaimsNew[k].data) :
          /\ ~realm.token_claims[k].present
          /\ realm' = [realm EXCEPT !.token_claims = SetClaim(@, k, d)]
    /\ Cardinality(Mismatched(realm'.token_claims, RealmTokenClaimsNew))
         + Cardinality(Mismatched(realm'.measurement_claims, MeasurementClaimsNew))
         <= MaxMismatch
    /\ UNCHANGED <<tok, platform, asserts, result, gc>>
    /\ UNCHANGED ioctlVars

WriteMeasurementClaim ==
    /\ tok = "realm"
    /\ result = NoResult
    /\ \E k \in DOMAIN realm.measurement_claims :
       \E d \in ClaimVals(MeasurementClaimsNew[k].data) :
          /\ ~realm.measurement_claims[k].present
          /\ realm' = [realm EXCEPT !.measurement_claims = SetClaim(@, k, d)]
    /\ Cardinality(Mismatched(realm'.token_claims, RealmTokenClaimsNew))
         + Cardinality(Mismatched(realm'.measurement_claims, MeasurementClaimsNew))
         <= MaxMismatch
    /\ UNCHANGED <<tok, platform, asserts, result, gc>>
    /\ UNCHANGED ioctlVars

\* one run populates either the platform token claims or one component
WritePlatformClaim ==
    /\ tok = "platform"
    /\ result = NoResult
    /\ \A s \in SwSlots : ~AnyPresent(platform.sw_component_claims[s].claims)
    /\ \E k \in DOMAIN platform.token_claims :
       \E d \in ClaimVals(PlatformTokenClaimsNew[k].data) :
          /\ ~platform.token_claims[k].present
          /\ platform' = [platform EXCEPT !.token_claims = SetClaim(@, k, d)]
    /\ Cardinality(Mismatched(platform'.token_claims, PlatformTokenClaimsNew))
         <= MaxMismatch
    /\ UNCHANGED <<tok, realm, asserts, result, gc>>
    /\ UNCHANGED ioctlVars

WriteSwComponentClaim ==
    /\ tok = "platform"
    /\ result = NoResult
    /\ ~AnyPresent(platform.token_claims)
    /\ \E s \in WrittenSlots :
          /\ \A o \in SwSlots \ {s} :
                ~AnyPresent(platform.sw_component_claims[o].claims)
          /\ \E k \in DOMAIN platform.sw_component_claims[s].claims :
             \E d \in ClaimVals(SwComponentClaimsNew[k].data) :
                /\ ~platform.sw_component_claims[s].claims[k].present
                /\ platform' = [platform EXCEPT
                      !.sw_component_claims[s].claims = SetClaim(@, k, d)]
                /\ Cardinality(Mismatched(platform'.sw_component_claims[s].claims,
                                          SwComponentClaimsNew)) <= MaxMismatch
    /\ UNCHANGED <<tok, realm, asserts, result, gc>>
    /\ UNCHANGED ioctlVars

----------------------------------------------------------------------------
(* Calls of the typed views on the token the program holds.                *)
(* A view is called once the claims have been recorded: no claim is        *)
(* written after the call, so `result` always describes the maps as they   *)
(* are.                                                                    *)

CallPlatClaims ==
    /\ tok = "platform"
    /\ result = NoResult
    /\ result' = [op |-> "PlatClaims",
                  r |-> PlatClaims_from_raw_claims(platform.token_claims)]
    /\ UNCHANGED <<tok, realm, platform, asserts, gc>>
    /\ UNCHANGED ioctlVars

CallPlatSwComponent ==
    /\ tok = "platform"
    /\ result = NoResult
    /\ \E s \in WrittenSlots, h \in PlatHashAlgos :
          result' = [op |-> "PlatSwComponent", slot |-> s, plat_hash_algo |-> h,
                     claims |-> platform.sw_component_claims[s].claims,
                     r |-> PlatSwComponent_from_raw_claims(
                               platform.sw_component_claims[s].claims, h)]
    /\ UNCHANGED <<tok, realm, platform, asserts, gc>>
    /\ UNCHANGED ioctlVars

CallRealmClaims ==
    /\ tok = "realm"
    /\ result = NoResult
    /\ result' = [op |-> "RealmClaims",
                  r |-> RealmClaims_from_raw_claims(realm.token_claims,
                                                    realm.measurement_claims)]
    /\ UNCHANGED <<tok, realm, platform, asserts, gc>>
    /\ UNCHANGED ioctlVars

\* no token object exists before a constructor has run
NoRealmToken == [token_claims |-> EmptyMap, measurement_claims |-> EmptyMap]
NoPlatformToken == [token_claims |-> EmptyMap, sw_component_claims |-> <<>>]

\* nix::Result of a wrapper call, or the panic that ended it
RetNone == [kind |-> "none", errno |-> "", len |-> 0]
RetOk(n) == [kind |-> "Ok", errno |-> "", len |-> n]
RetErr(e) == [kind |-> "Err", errno |-> e, len |-> 0]
RetPanic == [kind |-> "panic", errno |-> "", len |-> 0]

NoAsserts == [realm |-> TRUE, platform |-> TRUE, sw |-> TRUE]

TokenInit ==
    /\ tok = "none"
    /\ realm = NoRealmToken
    /\ platform = NoPlatformToken
    /\ asserts = NoAsserts
    /\ result = NoResult
    /\ gc = EmptyMap

IoctlIdle ==
    /\ pc = "idle"
    /\ op = "none"
    /\ fds = 0
    /\ opens = 0
    /\ token = 0
    /\ attest = 0
    /\ ioctls = <<>>
    /\ ret = RetNone

Init == TokenInit /\ IoctlIdle

Next ==
    \/ RealmTokenNew
    \/ PlatformTokenNew
    \/ WriteRealmClaim
    \/ WriteMeasurementClaim
    \/ WritePlatformClaim
    \/ WriteSwComponentClaim
    \/ CallPlatClaims
    \/ CallPlatSwComponent
    \/ CallRealmClaims

Spec == Init /\ [][Next]_vars

----------------------------------------------------------------------------
(* Direct calls of get_claim on maps drawn from a bounded set.             *)

GcLabels == 1 .. MaxGcLabels

GcVals == { new_bool, Bool(TRUE), Int64(1), Bstr(<<1>>), Text("sha-256") }

GcClaims ==
    { [mandatory |-> mand, data |-> d, title |-> "", present |-> p] :
        mand \in BOOLEAN, d \in GcVals, p \in BOOLEAN }

GcMaps == UNION { [D -> GcClaims] : D \in SUBSET GcLabels }

GetClaimInit ==
    /\ tok = "none"
    /\ realm = NoRealmToken
    /\ platform = NoPlatformToken
    /\ asserts = NoAsserts
    /\ result = NoResult
    /\ gc \in GcMaps
    /\ IoctlIdle

\* get_claim::<T>(key, &gc): the map is borrowed immutably
CallGetClaim ==
    /\ result = NoResult
    /\ \E key \in GcLabels, T \in Variants :
          result' = [op |-> "get_claim", key |-> key, T |-> T, claims |-> gc,
                     r |-> get_claim(T, key, gc)]
    /\ UNCHANGED <<tok, realm, platform, asserts, gc>>
    /\ UNCHANGED ioctlVars

GetClaimNext == CallGetClaim

SpecGetClaim == GetClaimInit /\ [][GetClaimNext]_vars

----------------------------------------------------------------------------
(* Properties of the token model and the typed views.                      *)

\* the value of variant T stored in d
Stored(T, d) ==
    CASE T = "Text"  -> d.text
      [] T = "Bstr"  -> d.bstr
      [] T = "Int64" -> d.i
      [] T = "Bool"  -> d.b

Min(S) == CHOOSE x \in S : \A y \in S : x <= y

\* C1: get_claim::<T>(k, m) returns MissingMandatoryClaim(k) exactly when k
\* is not a key of m or m[k].present is false, ClaimDataMisMatchType exactly
\* when m[k] is present with a variant other than T, and otherwise a copy of
\* the stored value; m is unchanged by the call.
C1_GetClaim ==
    result.op = "get_claim" =>
        LET m == result.claims
            k == result.key
            T == result.T
            r == result.r
            missing == k \notin DOMAIN m \/ ~m[k].present
            mismatch == ~missing /\ m[k].data.tag # T
        IN  /\ (~r.ok /\ r.err = [kind |-> "MissingMandatoryClaim", label |-> k])
                <=> missing
            /\ (~r.ok /\ r.err.kind = "ClaimDataMisMatchType") <=> mismatch
            /\ (~missing /\ ~mismatch) => (r.ok /\ r.val = Stored(T, m[k].data))
            /\ gc = m

\* C1 witness: a present claim asked for with another type
C1_Witness ==
    /\ result.op = "get_claim"
    /\ result.key \in DOMAIN gc
    /\ gc[result.key].present
    /\ gc[result.key].data.tag = "Bstr"
    /\ result.T = "Text"
    /\ result.r.err.kind = "ClaimDataMisMatchType"

\* the evaluation order and declared variants of the eight PlatClaims fields
PlatOrder == << 10, 2400, 265, 256, 2396, 2395, 2401, 2402 >>

PlatVariant ==
    [k \in {10, 256, 265, 2395, 2396, 2400, 2401, 2402} |->
        CASE k \in {10, 256, 2396, 2401} -> "Bstr"
          [] k \in {265, 2400, 2402} -> "Text"
          [] k = 2395 -> "Int64"]

\* claim k of m is present with variant T
PresentAs(m, k, T) == k \in DOMAIN m /\ m[k].present /\ m[k].data.tag = T

\* C2: PlatClaims::from_raw_claims succeeds iff all eight labels are present
\* with their declared variants; otherwise it reports the error of the first
\* failing field in the order 10, 2400, 265, 256, 2396, 2395, 2401, 2402; in
\* particular a map in which only verification_service (2400) is not present
\* yields MissingMandatoryClaim(2400).
C2_PlatClaimsAllMandatory ==
    result.op = "PlatClaims" =>
        LET m == platform.token_claims
            r == result.r
            failing == { i \in 1 .. 8 :
                           ~PresentAs(m, PlatOrder[i], PlatVariant[PlatOrder[i]]) }
        IN  /\ r.ok <=> failing = {}
            /\ failing # {} =>
                 LET f == PlatOrder[Min(failing)]
                 IN  r.err = IF m[f].present
                             THEN [kind |-> "ClaimDataMisMatchType", label |-> -1]
                             ELSE [kind |-> "MissingMandatoryClaim", label |-> f]
            /\ ( /\ ~m[2400].present
                 /\ \A k \in DOMAIN m \ {2400} : PresentAs(m, k, PlatVariant[k]) )
                 => r.err = [kind |-> "MissingMandatoryClaim", label |-> 2400]

\* C2 witness: everything but the verification service is present and the
\* typed view reports label 2400
C2_Witness ==
    /\ result.op = "PlatClaims"
    /\ ~platform.token_claims[2400].present
    /\ \A k \in DOMAIN platform.token_claims \ {2400} :
          PresentAs(platform.token_claims, k, PlatVariant[k])
    /\ result.r.err = [kind |-> "MissingMandatoryClaim", label |-> 2400]

\* the six mandatory realm claims and the four measurements are present with
\* their declared variants
RealmMandatoryPresent ==
    /\ \A k \in {10, 44235, 44237, 44238} : PresentAs(realm.token_claims, k, "Bstr")
    /\ \A k \in {44236, 44240} : PresentAs(realm.token_claims, k, "Text")
    /\ \A i \in 0 .. 3 : PresentAs(realm.measurement_claims, i, "Bstr")

\* C3 (amended): with the mandatory realm claims and the measurements
\* present, RealmClaims::from_raw_claims succeeds whatever the state of the
\* profile claim (265); profile is Some(stored text) when 265 is present as
\* text, and None when it is not present or present with another variant.
C3_RealmProfileOptional ==
    (result.op = "RealmClaims" /\ RealmMandatoryPresent) =>
        /\ result.r.ok
        /\ result.r.val.profile =
             IF PresentAs(realm.token_claims, 265, "Text")
             THEN [some |-> TRUE, val |-> realm.token_claims[265].data.text]
             ELSE [some |-> FALSE, val |-> ""]

\* C3 witness: both cases of a successful call, here the one with a profile
C3_Witness ==
    /\ result.op = "RealmClaims"
    /\ RealmMandatoryPresent
    /\ PresentAs(realm.token_claims, 265, "Text")
    /\ result.r.ok
    /\ result.r.val.profile = [some |-> TRUE, val |-> "sha-512"]

\* C3 as stated: profile is Some(stored value) whenever 265 is present
C3_Original ==
    (result.op = "RealmClaims" /\ RealmMandatoryPresent) =>
        /\ result.r.ok
        /\ ~realm.token_claims[265].present =>
              result.r.val.profile = [some |-> FALSE, val |-> ""]
        /\ realm.token_claims[265].present =>
              /\ result.r.val.profile.some
              /\ result.r.val.profile.val = realm.token_claims[265].data.text

\* the claims of the component the last PlatSwComponent call was given
SwClaims == result.claims

\* C4 (amended): on success hash_algo is the component's own label 6 when it
\* is present as text and the platform string h otherwise (not present, or
\* present with another variant); the other fields are the stored values of
\* labels 1, 2, 4 and 5, whatever h is.
C4_SwHashAlgoDefault ==
    (result.op = "PlatSwComponent" /\ result.r.ok) =>
        /\ result.r.val.hash_algo =
             IF PresentAs(SwClaims, 6, "Text")
             THEN SwClaims[6].data.text
             ELSE result.plat_hash_algo
        /\ result.r.val.ty = SwClaims[1].data.text
        /\ result.r.val.value = SwClaims[2].data.bstr
        /\ result.r.val.version = SwClaims[4].data.text
        /\ result.r.val.signer_id = SwClaims[5].data.bstr

\* C4 witness: a component with its own algorithm, different from h
C4_Witness ==
    /\ result.op = "PlatSwComponent"
    /\ result.r.ok
    /\ PresentAs(SwClaims, 6, "Text")
    /\ SwClaims[6].data.text # result.plat_hash_algo
    /\ result.r.val.hash_algo = SwClaims[6].data.text

\* C4 as stated: hash_algo is the stored label 6 whenever it is present
C4_Original ==
    (result.op = "PlatSwComponent" /\ result.r.ok) =>
        /\ SwClaims[6].present => result.r.val.hash_algo = SwClaims[6].data.text
        /\ ~SwClaims[6].present => result.r.val.hash_algo = result.plat_hash_algo

\* the measurement ordinals that are not present, or not byte strings
RemsFailing == { i \in 0 .. 3 : ~PresentAs(realm.measurement_claims, i, "Bstr") }

RemsNotPresent == { i \in 0 .. 3 : ~realm.measurement_claims[i].present }

\* C8 (amended): on success rems[i] is the byte string stored at key i for
\* i in 0..3; if some key is not a present byte string the call fails with
\* the error of the smallest such key (MissingMandatoryClaim(i) when it is
\* not present, ClaimDataMisMatchType when it has another variant), whatever
\* the realm token claims are.
C8_RealmMeasurements ==
    result.op = "RealmClaims" =>
        /\ result.r.ok =>
              /\ DOMAIN result.r.val.rems = 0 .. 3
              /\ \A i \in 0 .. 3 :
                    result.r.val.rems[i] = realm.measurement_claims[i].data.bstr
        /\ RemsFailing # {} =>
              /\ ~result.r.ok
              /\ result.r.err =
                   IF realm.measurement_claims[Min(RemsFailing)].present
                   THEN [kind |-> "ClaimDataMisMatchType", label |-> -1]
                   ELSE [kind |-> "MissingMandatoryClaim", label |-> Min(RemsFailing)]

\* C8 witness: measurement 0 and the challenge are both missing, and the
\* error names the measurement
C8_Witness ==
    /\ result.op = "RealmClaims"
    /\ ~realm.measurement_claims[0].present
    /\ ~realm.token_claims[10].present
    /\ result.r.err = [kind |-> "MissingMandatoryClaim", label |-> 0]

\* C8 as stated: any key that is not present yields MissingMandatoryClaim of
\* the smallest key that is not present
C8_Original ==
    result.op = "RealmClaims" =>
        /\ result.r.ok =>
              \A i \in 0 .. 3 :
                 result.r.val.rems[i] = realm.measurement_claims[i].data.bstr
        /\ RemsNotPresent # {} =>
              /\ ~result.r.ok
              /\ result.r.err =
                   [kind |-> "MissingMandatoryClaim", label |-> Min(RemsNotPresent)]

\* the rows of the schema tables that describe a claim: label, mandatory,
\* ClaimData variant
PlatTable ==
    { <<10, TRUE, "Bstr">>, <<256, TRUE, "Bstr">>, <<265, TRUE, "Text">>,
      <<2395, TRUE, "Int64">>, <<2396, TRUE, "Bstr">>, <<2400, FALSE, "Text">>,
      <<2401, TRUE, "Bstr">>, <<2402, TRUE, "Text">> }

RealmTable ==
    { <<10, TRUE, "Bstr">>, <<265, FALSE, "Text">>, <<44235, TRUE, "Bstr">>,
      <<44236, TRUE, "Text">>, <<44237, TRUE, "Bstr">>, <<44238, TRUE, "Bstr">>,
      <<44240, TRUE, "Text">> }

SwTable ==
    { <<1, TRUE, "Text">>, <<2, TRUE, "Bstr">>, <<4, FALSE, "Text">>,
      <<5, TRUE, "Bstr">>, <<6, FALSE, "Text">> }

MeasurementTable == { <<i, TRUE, "Bstr">> : i \in 0 .. 3 }

Rows(m) == { <<k, m[k].mandatory, m[k].data.tag>> : k \in DOMAIN m }

\* m holds exactly the rows of `table`, n of them, none present
FreshMap(m, table, n) ==
    /\ Rows(m) = table
    /\ Cardinality(DOMAIN m) = n
    /\ \A k \in DOMAIN m : ~m[k].present

FreshRealm ==
    /\ FreshMap(realm.token_claims, RealmTable, 7)
    /\ FreshMap(realm.measurement_claims, MeasurementTable, 4)
    /\ DOMAIN realm.measurement_claims = {0, 1, 2, 3}
    /\ asserts.realm

FreshPlatform ==
    /\ FreshMap(platform.token_claims, PlatTable, 8)
    /\ DOMAIN platform.sw_component_claims = 0 .. 31
    /\ \A s \in DOMAIN platform.sw_component_claims :
          /\ ~platform.sw_component_claims[s].present
          /\ FreshMap(platform.sw_component_claims[s].claims, SwTable, 5)
    /\ asserts.platform
    /\ asserts.sw

\* C7 (amended): a constructor leaves every claim-valued label of the schema
\* table (all but the array-valued 2399 and 44239) in the token's ClaimsMap
\* with the table's mandatory flag and variant and present=false; realm
\* token_claims has 7 entries, platform token_claims 8, each of the 32
\* component slots has present=false and the 5 labels 1, 2, 4, 5, 6, the
\* measurement map has the 4 mandatory byte strings 0..3, and no
\* construction assertion fails.
C7_SchemaInit ==
    [][ /\ (tok = "none" /\ tok' = "realm") => FreshRealm'
        /\ (tok = "none" /\ tok' = "platform") => FreshPlatform' ]_vars

\* C7 witness: a platform token as its constructor left it
C7_Witness == tok = "platform" /\ FreshPlatform

\* C7 as stated: every label of the schema tables, 2399 and 44239 included,
\* is a key of the token's ClaimsMap
C7_Original ==
    [][ /\ (tok = "none" /\ tok' = "realm") =>
              (FreshRealm' /\ RealmSchemaLabels \subseteq DOMAIN realm'.token_claims)
        /\ (tok = "none" /\ tok' = "platform") =>
              (FreshPlatform' /\ PlatSchemaLabels \subseteq DOMAIN platform'.token_claims)
      ]_vars

\* C9: a component whose mandatory claims 1, 2 and 5 are present with their
\* declared variants is accepted by PlatSwComponent::from_raw_claims whether
\* or not the optional claims 4 and 6 are present.
C9_SwOptionalClaims ==
    ( /\ result.op = "PlatSwComponent"
      /\ PresentAs(SwClaims, 1, "Text")
      /\ PresentAs(SwClaims, 2, "Bstr")
      /\ PresentAs(SwClaims, 5, "Bstr")
      /\ \A k \in {4, 6} : SwClaims[k].present => SwClaims[k].data.tag = "Text" )
        => result.r.ok

----------------------------------------------------------------------------
(* src/ioctl/mod.rs: the wrappers around the /dev/rsi ioctls.  Every system *)
(* call (open, ioctl) is a step; the kernel's answer is chosen freely.      *)

INITIAL_TOKEN_SIZE == 64

Wrappers == { "abi_version", "measurement_read", "measurement_extend",
              "attestation_token", "sealing_key" }

\* the errors an ioctl may return, and the token lengths the kernel reports
Errnos == { "ERANGE", "EINVAL" }

TokenLens == {0} \cup ((INITIAL_TOKEN_SIZE - 1) .. (INITIAL_TOKEN_SIZE + MaxExtra))

\* `fd` goes out of scope: the descriptor it owns is closed (fd is the owned
\* descriptor returned by nix::fcntl::open, read through as_raw_fd())
DropFd(n) == n - 1

\* a wrapper is entered; attestation_token first builds attest[0] with
\* token_len = INITIAL_TOKEN_SIZE and a token buffer of INITIAL_TOKEN_SIZE
Call ==
    /\ pc = "idle"
    /\ \E w \in Wrappers :
          /\ op' = w
          /\ token' = IF w = "attestation_token" THEN INITIAL_TOKEN_SIZE ELSE 0
          /\ attest' = IF w = "attestation_token" THEN INITIAL_TOKEN_SIZE ELSE 0
    /\ pc' = "open"
    /\ opens' = 0
    /\ ioctls' = <<>>
    /\ ret' = RetNone
    /\ UNCHANGED fds
    /\ UNCHANGED tokenVars

\* let fd = nix::fcntl::open(DEV, FLAGS, MODE)?  -- the open succeeds
OpenOk ==
    /\ pc = "open"
    /\ fds' = fds + 1
    /\ opens' = opens + 1
    /\ pc' = "ioctl"
    /\ UNCHANGED <<op, token, attest, ioctls, ret>>
    /\ UNCHANGED tokenVars

\* the open fails and `?` returns its error; no descriptor was created
OpenFail ==
    /\ pc = "open"
    /\ opens' = opens + 1
    /\ ret' = RetErr("ENOENT")
    /\ pc' = "idle"
    /\ UNCHANGED <<op, fds, token, attest, ioctls>>
    /\ UNCHANGED tokenVars

\* the single ioctl of abi_version, measurement_read, measurement_extend and
\* sealing_key
Ioctl ==
    /\ pc = "ioctl"
    /\ op # "attestation_token"
    /\ \E res \in {"Ok"} \cup Errnos :
          /\ ioctls' = Append(ioctls, [buf |-> 0, len_in |-> 0,
                                       res |-> res, len_out |-> 0])
          /\ pc' = IF res = "Ok" /\ op = "measurement_read" THEN "slice" ELSE "return"
    /\ UNCHANGED <<op, fds, opens, token, attest, ret>>
    /\ UNCHANGED tokenVars

\* a mutant of AttestationIoctl that retries after any error
AttestationIoctl_retry_any ==
    /\ pc = "ioctl"
    /\ op = "attestation_token"
    /\ \E res \in {"Ok"} \cup Errnos, len \in TokenLens :
          /\ ioctls' = Append(ioctls, [buf |-> token, len_in |-> attest,
                                       res |-> res, len_out |-> len])
          /\ attest' = len
          /\ token' = IF res # "Ok" THEN len ELSE token
          /\ pc' = IF res = "Ok" THEN "slice" ELSE "retry"
    /\ UNCHANGED <<op, fds, opens, ret>>
    /\ UNCHANGED tokenVars

\* the first kernel::attestation_token and the match on its result; on
\* ERANGE token = vec![0; attest[0].token_len]
AttestationIoctl ==
    /\ pc = "ioctl"
    /\ op = "attestation_token"
    /\ \E res \in {"Ok"} \cup Errnos, len \in TokenLens :
          /\ ioctls' = Append(ioctls, [buf |-> token, len_in |-> attest,
                                       res |-> res, len_out |-> len])
          /\ attest' = len
          /\ token' = IF res = "ERANGE" THEN len ELSE token
          /\ pc' = CASE res = "Ok" -> "slice"
                     [] res = "ERANGE" -> "retry"
                     [] OTHER -> "return"
    /\ UNCHANGED <<op, fds, opens, ret>>
    /\ UNCHANGED tokenVars

\* the second kernel::attestation_token(...)? in the ERANGE arm
AttestationRetry ==
    /\ pc = "retry"
    /\ \E res \in {"Ok"} \cup Errnos, len \in TokenLens :
          /\ ioctls' = Append(ioctls, [buf |-> token, len_in |-> attest,
                                       res |-> res, len_out |-> len])
          /\ attest' = len
          /\ pc' = IF res = "Ok" THEN "slice" ELSE "return"
    /\ UNCHANGED <<op, fds, opens, token, ret>>
    /\ UNCHANGED tokenVars

\* a mutant of Return that leaves the descriptor open when an ioctl failed
Return_leak_on_error ==
    /\ pc = "return"
    /\ LET last == ioctls[Len(ioctls)]
       IN  /\ ret' = IF last.res = "Ok" THEN RetOk(0) ELSE RetErr(last.res)
           /\ fds' = IF last.res = "Ok" THEN DropFd(fds) ELSE fds
    /\ pc' = "idle"
    /\ UNCHANGED <<op, opens, token, attest, ioctls>>
    /\ UNCHANGED tokenVars

\* the wrapper returns the outcome of its last ioctl and drops fd
Return ==
    /\ pc = "return"
    /\ LET last == ioctls[Len(ioctls)]
       IN  ret' = IF last.res = "Ok" THEN RetOk(0) ELSE RetErr(last.res)
    /\ fds' = DropFd(fds)
    /\ pc' = "idle"
    /\ UNCHANGED <<op, opens, token, attest, ioctls>>
    /\ UNCHANGED tokenVars

\* Ok(token[..(attest[0].token_len as usize)].to_vec()): an index past the
\* end of the buffer panics; fd is dropped either way
AttestationSlice ==
    /\ pc = "slice"
    /\ op = "attestation_token"
    /\ ret' = IF attest <= token THEN RetOk(attest) ELSE RetPanic
    /\ fds' = DropFd(fds)
    /\ pc' = "idle"
    /\ UNCHANGED <<op, opens, token, attest, ioctls>>
    /\ UNCHANGED tokenVars

\* Ok(measure[0].data[..(measure[0].data_len as usize)].to_vec()): whether
\* the data_len the kernel wrote fits the data array is the kernel's choice
MeasurementSlice ==
    /\ pc = "slice"
    /\ op = "measurement_read"
    /\ \E fits \in BOOLEAN : ret' = IF fits THEN RetOk(0) ELSE RetPanic
    /\ fds' = DropFd(fds)
    /\ pc' = "idle"
    /\ UNCHANGED <<op, opens, token, attest, ioctls>>
    /\ UNCHANGED tokenVars

IoctlInit == TokenInit /\ IoctlIdle

IoctlNext ==
    \/ Call
    \/ OpenOk
    \/ OpenFail
    \/ Ioctl
    \/ AttestationIoctl
    \/ AttestationRetry
    \/ Return
    \/ AttestationSlice
    \/ MeasurementSlice

SpecIoctl == IoctlInit /\ [][IoctlNext]_vars

----------------------------------------------------------------------------
(* Properties of the ioctl wrappers.                                       *)

\* the current wrapper call has come back to its caller
Returned == pc = "idle" /\ op # "none"

\* C5: attestation_token issues at most two ioctls; the first one with the
\* INITIAL_TOKEN_SIZE buffer; a second one exactly when the first returned
\* ERANGE, with a buffer of exactly the token_len the kernel reported; any
\* other error of the first ioctl and any error of the second is returned.
C5_AttestationRetryOnce ==
    op = "attestation_token" =>
        /\ Len(ioctls) <= 2
        /\ Len(ioctls) >= 1 =>
              /\ ioctls[1].buf = 64
              /\ ioctls[1].len_in = 64
        /\ Len(ioctls) = 2 =>
              /\ ioctls[1].res = "ERANGE"
              /\ ioctls[2].buf = ioctls[1].len_out
              /\ ioctls[2].len_in = ioctls[1].len_out
        /\ (Returned /\ Len(ioctls) >= 1 /\ ioctls[1].res = "ERANGE")
              => Len(ioctls) = 2
        /\ (Returned /\ Len(ioctls) = 1 /\ ioctls[1].res # "Ok")
              => ret = [kind |-> "Err", errno |-> ioctls[1].res, len |-> 0]
        /\ (Returned /\ Len(ioctls) = 2 /\ ioctls[2].res # "Ok")
              => ret = [kind |-> "Err", errno |-> ioctls[2].res, len |-> 0]

\* C5 witness: the retry itself got ERANGE and that error came back
C5_Witness ==
    /\ op = "attestation_token"
    /\ Returned
    /\ Len(ioctls) = 2
    /\ ioctls[2].res = "ERANGE"
    /\ ioctls[2].buf = 66
    /\ ret = [kind |-> "Err", errno |-> "ERANGE", len |-> 0]

\* C6: a wrapper opens /dev/rsi once per call, holds exactly that descriptor
\* while it runs, and has released it on every way back to the caller: no
\* descriptor is open between calls.
C6_DescriptorReleased ==
    /\ opens <= 1
    /\ fds \in {0, 1}
    /\ pc = "idle" => fds = 0
    /\ pc = "open" => fds = 0 /\ opens = 0
    /\ pc \in {"ioctl", "retry", "slice", "return"} => fds = 1 /\ opens = 1
    /\ Returned => opens = 1

\* C6 witness: attestation_token is back from a failed retry with nothing open
C6_Witness ==
    /\ op = "attestation_token"
    /\ Returned
    /\ Len(ioctls) = 2
    /\ ret.kind = "Err"
    /\ opens = 1
    /\ fds = 0

\* C10: whenever attestation_token reaches its final slice, the token_len
\* last reported by the kernel is no larger than the buffer it holds, so the
\* call returns Ok with exactly token_len bytes and never panics.
C10_SliceWithinBuffer ==
    /\ (pc = "slice" /\ op = "attestation_token") => attest <= token
    /\ (Returned /\ op = "attestation_token") => ret.kind # "panic"

====
